---- MODULE Spec2Model ----
(***************************************************************************)
(* Shared-memory registration and initialisation protocol of pgrx          *)
(* (src/pgrx/src/shmem.rs): the pg_shmem_init! macro in its two            *)
(* host-version variants, the request phase (pg_init_locked,               *)
(* pg_init_atomic) and the attach phase (shmem_init_locked,                *)
(* shmem_init_atomic), run by backend processes over one shared segment.   *)
(***************************************************************************)
EXTENDS Integers, Sequences, FiniteSets, TLC

(* ------------------------------ bounds --------------------------------- *)
\* number of request-phase calls the harness may make in total
MaxRequests == 2
\* number of attach-phase calls the harness may make in total
MaxAttach == 2
\* number of pg_shmem_init! executions that repeat an already executed site
MaxRepeat == 1
\* depth of the callback call stack before the process overflows its stack
MaxDepth == 6

(* --------------------------- static universe --------------------------- *)
Procs == {"A", "B"}
\* the process that loads the module and runs the host's hooks
Postmaster == "A"
NoProc == "none"

\* static declarations: two PgLwLock<i32> that carry the same name, one
\* PgLwLock<i32> whose name holds an interior NUL, one PgAtomic<AtomicBool>
Decls == {"L1", "L2", "LB", "AT"}
NoDecl == "none"
Locked == {"L1", "L2", "LB"}
Atomics == {"AT"}

\* a name is a sequence of bytes
get_name(d) == IF d = "LB" THEN <<98, 0>> ELSE <<99>>

\* std::mem::size_of::<T>(): i32 for the PgLwLock cells, AtomicBool for AT
size_of(d) == IF d \in Locked THEN 4 ELSE 1

\* <T>::default(): 0 for i32, false (byte 0) for AtomicBool
default(d) == 0

\* the values a T can hold in the model (AtomicBool: false = 0, true = 1)
ValuesOf(d) == IF d \in Locked THEN {0, 5} ELSE {0, 1}

\* CString::new: fails on an interior NUL byte, otherwise keeps the bytes
CString_new(s) ==
    IF \E i \in 1..Len(s) : s[i] = 0
    THEN [ok |-> FALSE, val |-> <<>>]
    ELSE [ok |-> TRUE, val |-> s]

\* Uuid::new_v4().to_string(): the k-th identifier minted; distinct draws
\* are distinct strings and none holds a NUL byte
Uuid_new_v4(k) == <<117, k>>

Null == 0

\* no read has just returned
NoRead == [proc |-> NoProc, decl |-> NoDecl, val |-> 0]

VARIABLES
    reservedBytes,   \* host ledger: bytes asked by RequestAddinShmemSpace
    lockTranches,    \* host ledger: requests made by RequestNamedLWLockTranche
    ShmemIndex,      \* host registry of named slots; a slot's address is its index
    initLock,        \* holder of AddinShmemInitLock (MainLWLockArray[21])
    uuidCtr,         \* identifiers minted so far
    handle,          \* handle[p][d]: address process p's handle of d is bound to
    pc,              \* pc[p]: position of process p inside an attach call
    cur,             \* cur[p]: declaration of the running attach call
    shm_name,        \* local of the attach call
    found,           \* local of the attach call
    fv_shmem,        \* local of the attach call
    lastRead,        \* what the step just taken returned, when it was a read
    reqCount,        \* history: completed request phases per declaration
    attCount,        \* history: attach calls started, per process and declaration
    resolved,        \* history: addresses the attach calls of d resolved to
    pg15,            \* build variant: feature "pg15"/"pg16" selected
    shmem_request_hook,        \* pg_sys::shmem_request_hook
    shmem_startup_hook,        \* pg_sys::shmem_startup_hook
    PREV_SHMEM_REQUEST_HOOK,   \* the static of each pg_shmem_init! site
    PREV_SHMEM_STARTUP_HOOK,   \* the static of each pg_shmem_init! site
    hostPhase,       \* where the host's startup sequence stands
    stack,           \* callbacks of the running hook invocation, innermost last
    trace,           \* history: work done by the hook invocations, per slot
    regOrder,        \* history: sites in the order their registration returned
    prior            \* history: the callbacks found installed at module load

vars == <<reservedBytes, lockTranches, ShmemIndex, initLock, uuidCtr, handle,
          pc, cur, shm_name, found, fv_shmem, lastRead, reqCount, attCount,
          resolved, pg15, shmem_request_hook, shmem_startup_hook,
          PREV_SHMEM_REQUEST_HOOK, PREV_SHMEM_STARTUP_HOOK, hostPhase, stack,
          trace, regOrder, prior>>

ledger == <<reservedBytes, lockTranches>>
locals == <<cur, shm_name, found, fv_shmem>>
hooks == <<shmem_request_hook, shmem_startup_hook, PREV_SHMEM_REQUEST_HOOK,
           PREV_SHMEM_STARTUP_HOOK>>
hostVars == <<pg15, hooks, hostPhase, stack, trace, regOrder, prior>>

(* ------------------------------ host ----------------------------------- *)
\* pg_sys::RequestAddinShmemSpace(n): accumulate a size request
RequestAddinShmemSpace(n) == reservedBytes' = reservedBytes + n

\* pg_sys::RequestNamedLWLockTranche(name, n): accumulate a lock request
RequestNamedLWLockTranche(name, n) ==
    lockTranches' = Append(lockTranches, [name |-> name, count |-> n])

\* the address registered under a name, Null when there is none
Lookup(name) ==
    IF \E i \in 1..Len(ShmemIndex) : ShmemIndex[i].name = name
    THEN CHOOSE i \in 1..Len(ShmemIndex) : ShmemIndex[i].name = name
    ELSE Null

\* a slot the registry has just created: its bytes are whatever the
\* segment held there
NewSlot(name, size, garbage) ==
    [name |-> name, size |-> size, val |-> garbage, inits |-> 0,
     lastOp |-> [kind |-> "none", by |-> NoProc, val |-> 0],
     written |-> [set |-> FALSE, val |-> 0]]

(* ----------------------------- request phase --------------------------- *)
\* pg_init_locked as it would be with the name built after the byte request
pg_init_locked_name_last(p, d) ==
    LET lock == CString_new(get_name(d)) IN
    /\ RequestAddinShmemSpace(size_of(d))
    /\ IF ~lock.ok
       THEN /\ pc' = [pc EXCEPT ![p] = "panicked"]
            /\ UNCHANGED <<lockTranches, reqCount>>
       ELSE /\ RequestNamedLWLockTranche(lock.val, 1)
            /\ reqCount' = [reqCount EXCEPT ![d] = @ + 1]
            /\ UNCHANGED pc

pg_init_locked(p, d) ==
    LET lock == CString_new(get_name(d)) IN
    IF ~lock.ok
    THEN /\ pc' = [pc EXCEPT ![p] = "panicked"]
         /\ UNCHANGED <<ledger, reqCount>>
    ELSE /\ RequestAddinShmemSpace(size_of(d))
         /\ RequestNamedLWLockTranche(lock.val, 1)
         /\ reqCount' = [reqCount EXCEPT ![d] = @ + 1]
         /\ UNCHANGED pc

\* pg_init_atomic as it would be had it kept pg_init_locked's tranche request
pg_init_atomic_with_tranche(p, d) ==
    /\ RequestAddinShmemSpace(size_of(d))
    /\ RequestNamedLWLockTranche(<<97>>, 1)
    /\ reqCount' = [reqCount EXCEPT ![d] = @ + 1]
    /\ UNCHANGED pc

pg_init_atomic(p, d) ==
    /\ RequestAddinShmemSpace(size_of(d))
    /\ reqCount' = [reqCount EXCEPT ![d] = @ + 1]
    /\ UNCHANGED <<lockTranches, pc>>

\* PgSharedMemoryInitialization::pg_init, dispatched on the handle's type
pg_init(p, d) ==
    IF d \in Locked THEN pg_init_locked(p, d) ELSE pg_init_atomic(p, d)

(* ----------------------------- attach phase ---------------------------- *)
\* shmem_init_locked as it would be with a name made up anew on every call
shmem_init_locked_begin_fresh(p, d) ==
    /\ uuidCtr' = uuidCtr + 1
    /\ found' = [found EXCEPT ![p] = FALSE]
    /\ pc' = [pc EXCEPT ![p] = "acquire"]
    /\ cur' = [cur EXCEPT ![p] = d]
    /\ shm_name' = [shm_name EXCEPT ![p] = Uuid_new_v4(uuidCtr + 1)]

\* shmem_init_locked up to the lock acquisition: found = false, shm_name
shmem_init_locked_begin(p, d) ==
    LET n == CString_new(get_name(d)) IN
    /\ found' = [found EXCEPT ![p] = FALSE]
    /\ IF ~n.ok
       THEN /\ pc' = [pc EXCEPT ![p] = "panicked"]
            /\ UNCHANGED <<cur, shm_name>>
       ELSE /\ pc' = [pc EXCEPT ![p] = "acquire"]
            /\ cur' = [cur EXCEPT ![p] = d]
            /\ shm_name' = [shm_name EXCEPT ![p] = n.val]
    /\ UNCHANGED uuidCtr

\* shmem_init_atomic as it would be with the identifier minted once and kept
shmem_init_atomic_begin_kept(p, d) ==
    /\ uuidCtr' = 1
    /\ found' = [found EXCEPT ![p] = FALSE]
    /\ pc' = [pc EXCEPT ![p] = "acquire"]
    /\ cur' = [cur EXCEPT ![p] = d]
    /\ shm_name' = [shm_name EXCEPT ![p] = Uuid_new_v4(1)]

\* shmem_init_atomic up to the lock acquisition: a fresh identifier
shmem_init_atomic_begin(p, d) ==
    LET n == CString_new(Uuid_new_v4(uuidCtr + 1)) IN
    /\ uuidCtr' = uuidCtr + 1
    /\ found' = [found EXCEPT ![p] = FALSE]
    /\ pc' = [pc EXCEPT ![p] = "acquire"]
    /\ cur' = [cur EXCEPT ![p] = d]
    /\ shm_name' = [shm_name EXCEPT ![p] = n.val]

\* PgSharedMemoryInitialization::shmem_init, dispatched on the handle's type
shmem_init(p, d) ==
    /\ IF d \in Locked
       THEN shmem_init_locked_begin(p, d)
       ELSE shmem_init_atomic_begin(p, d)
    /\ attCount' = [attCount EXCEPT ![p][d] = @ + 1]
    /\ UNCHANGED <<fv_shmem, ShmemIndex, initLock, handle, resolved>>

\* the acquisition as it would be in shared mode: it does not wait for a holder
LWLockAcquire_shared(p) ==
    /\ pc[p] = "acquire"
    /\ initLock' = p
    /\ pc' = [pc EXCEPT ![p] = "lookup"]
    /\ lastRead' = NoRead
    /\ UNCHANGED hostVars
    /\ UNCHANGED <<ledger, ShmemIndex, uuidCtr, handle, locals,
                   reqCount, attCount, resolved>>

LWLockAcquire(p) ==
    /\ pc[p] = "acquire"
    /\ initLock = NoProc
    /\ initLock' = p
    /\ pc' = [pc EXCEPT ![p] = "lookup"]
    /\ lastRead' = NoRead
    /\ UNCHANGED hostVars
    /\ UNCHANGED <<ledger, ShmemIndex, uuidCtr, handle, locals,
                   reqCount, attCount, resolved>>

\* pg_sys::ShmemInitStruct(shm_name, size_of::<T>(), &mut found)
ShmemInitStruct(p) ==
    /\ pc[p] = "lookup"
    /\ LET a == Lookup(shm_name[p]) IN
       IF a # Null
       THEN /\ found' = [found EXCEPT ![p] = TRUE]
            /\ fv_shmem' = [fv_shmem EXCEPT ![p] = a]
            /\ resolved' = [resolved EXCEPT ![cur[p]] = @ \cup {a}]
            /\ UNCHANGED ShmemIndex
       ELSE \E garbage \in ValuesOf(cur[p]) :
            /\ ShmemIndex' = Append(ShmemIndex,
                                NewSlot(shm_name[p], size_of(cur[p]), garbage))
            /\ found' = [found EXCEPT ![p] = FALSE]
            /\ fv_shmem' = [fv_shmem EXCEPT ![p] = Len(ShmemIndex) + 1]
            /\ resolved' = [resolved EXCEPT
                               ![cur[p]] = @ \cup {Len(ShmemIndex) + 1}]
    /\ pc' = [pc EXCEPT ![p] = IF cur[p] \in Locked THEN "write" ELSE "attach"]
    /\ lastRead' = NoRead
    /\ UNCHANGED hostVars
    /\ UNCHANGED <<ledger, initLock, uuidCtr, handle, cur, shm_name,
                   reqCount, attCount>>

\* the slot at address a after the attach call of p stored v into it
Initialised(a, p, v) ==
    [ShmemIndex EXCEPT ![a].val = v, ![a].inits = @ + 1,
                       ![a].lastOp = [kind |-> "attach", by |-> p, val |-> v]]

\* shmem_init_locked as it would be with the write made only for a new slot
ptr_write_if_created(p) ==
    /\ pc[p] = "write"
    /\ ShmemIndex' = IF found[p] THEN ShmemIndex
                     ELSE Initialised(fv_shmem[p], p, default(cur[p]))
    /\ pc' = [pc EXCEPT ![p] = "attach"]
    /\ lastRead' = NoRead
    /\ UNCHANGED hostVars
    /\ UNCHANGED <<ledger, initLock, uuidCtr, handle, locals,
                   reqCount, attCount, resolved>>

ptr_write(p) ==
    /\ pc[p] = "write"
    /\ ShmemIndex' = Initialised(fv_shmem[p], p, default(cur[p]))
    /\ pc' = [pc EXCEPT ![p] = "attach"]
    /\ lastRead' = NoRead
    /\ UNCHANGED hostVars
    /\ UNCHANGED <<ledger, initLock, uuidCtr, handle, locals,
                   reqCount, attCount, resolved>>

\* lock.attach(fv_shmem) / atomic.attach(fv_shmem): bind the handle
attach(p) ==
    /\ pc[p] = "attach"
    /\ handle' = [handle EXCEPT ![p][cur[p]] = fv_shmem[p]]
    /\ pc' = [pc EXCEPT ![p] = IF cur[p] \in Locked THEN "release" ELSE "copy"]
    /\ lastRead' = NoRead
    /\ UNCHANGED hostVars
    /\ UNCHANGED <<ledger, ShmemIndex, initLock, uuidCtr, locals,
                   reqCount, attCount, resolved>>

\* shmem_init_atomic as it would be without the copy of the default value
ptr_copy_skipped(p) ==
    /\ pc[p] = "copy"
    /\ ShmemIndex' = Initialised(fv_shmem[p], p, ShmemIndex[fv_shmem[p]].val)
    /\ pc' = [pc EXCEPT ![p] = "release"]
    /\ lastRead' = NoRead
    /\ UNCHANGED hostVars
    /\ UNCHANGED <<ledger, initLock, uuidCtr, handle, locals,
                   reqCount, attCount, resolved>>

ptr_copy(p) ==
    /\ pc[p] = "copy"
    /\ ShmemIndex' = Initialised(fv_shmem[p], p, default(cur[p]))
    /\ pc' = [pc EXCEPT ![p] = "release"]
    /\ lastRead' = NoRead
    /\ UNCHANGED hostVars
    /\ UNCHANGED <<ledger, initLock, uuidCtr, handle, locals,
                   reqCount, attCount, resolved>>

\* the return of the call as it would be without the LWLockRelease
LWLockRelease_forgotten(p) ==
    /\ pc[p] = "release"
    /\ pc' = [pc EXCEPT ![p] = "idle"]
    /\ cur' = [cur EXCEPT ![p] = NoDecl]
    /\ shm_name' = [shm_name EXCEPT ![p] = <<>>]
    /\ found' = [found EXCEPT ![p] = FALSE]
    /\ fv_shmem' = [fv_shmem EXCEPT ![p] = Null]
    /\ lastRead' = NoRead
    /\ UNCHANGED hostVars
    /\ UNCHANGED <<ledger, ShmemIndex, initLock, uuidCtr, handle, reqCount,
                   attCount, resolved>>

LWLockRelease(p) ==
    /\ pc[p] = "release"
    /\ initLock' = NoProc
    /\ pc' = [pc EXCEPT ![p] = "idle"]
    /\ cur' = [cur EXCEPT ![p] = NoDecl]
    /\ shm_name' = [shm_name EXCEPT ![p] = <<>>]
    /\ found' = [found EXCEPT ![p] = FALSE]
    /\ fv_shmem' = [fv_shmem EXCEPT ![p] = Null]
    /\ lastRead' = NoRead
    /\ UNCHANGED hostVars
    /\ UNCHANGED <<ledger, ShmemIndex, uuidCtr, handle, reqCount,
                   attCount, resolved>>

(* ------------------------- access through a handle --------------------- *)
\* what a read through p's handle of d returns
Deref(p, d) == ShmemIndex[handle[p][d]].val

\* PgLwLock::share(): read the cell under the declaration's own lock
share(p, d) ==
    /\ pc[p] = "idle"
    /\ d \in Locked
    /\ handle[p][d] # Null
    /\ lastRead' = [proc |-> p, decl |-> d, val |-> Deref(p, d)]
    /\ UNCHANGED hostVars
    /\ UNCHANGED <<ledger, ShmemIndex, initLock, uuidCtr, handle, pc, locals,
                   reqCount, attCount, resolved>>

\* PgLwLock::exclusive(): store v into the cell under the declaration's own lock
exclusive(p, d, v) ==
    /\ pc[p] = "idle"
    /\ d \in Locked
    /\ handle[p][d] # Null
    /\ ShmemIndex' = [ShmemIndex EXCEPT
                         ![handle[p][d]].val = v,
                         ![handle[p][d]].lastOp =
                             [kind |-> "write", by |-> p, val |-> v],
                         ![handle[p][d]].written = [set |-> TRUE, val |-> v]]
    /\ lastRead' = NoRead
    /\ UNCHANGED hostVars
    /\ UNCHANGED <<ledger, initLock, uuidCtr, handle, pc, locals,
                   reqCount, attCount, resolved>>

\* PgAtomic::get().load(..): the atomic's own read, no lock taken
atomic_load(p, d) ==
    /\ pc[p] = "idle"
    /\ d \in Atomics
    /\ handle[p][d] # Null
    /\ lastRead' = [proc |-> p, decl |-> d, val |-> Deref(p, d)]
    /\ UNCHANGED hostVars
    /\ UNCHANGED <<ledger, ShmemIndex, initLock, uuidCtr, handle, pc, locals,
                   reqCount, attCount, resolved>>

\* PgAtomic::get().store(v, ..): the atomic's own write, no lock taken
atomic_store(p, d, v) ==
    /\ pc[p] = "idle"
    /\ d \in Atomics
    /\ handle[p][d] # Null
    /\ ShmemIndex' = [ShmemIndex EXCEPT
                         ![handle[p][d]].val = v,
                         ![handle[p][d]].lastOp =
                             [kind |-> "write", by |-> p, val |-> v],
                         ![handle[p][d]].written = [set |-> TRUE, val |-> v]]
    /\ lastRead' = NoRead
    /\ UNCHANGED hostVars
    /\ UNCHANGED <<ledger, initLock, uuidCtr, handle, pc, locals,
                   reqCount, attCount, resolved>>

(* --------------------------- hook chain -------------------------------- *)
None == "none"
\* a callback some other extension installed before this module loaded
Ext == "ext"
\* one pg_shmem_init! site per static declaration; the site's $thing is it
Sites == Decls

Range(q) == {q[i] : i \in 1..Len(q)}
Event(e, d) == [ev |-> e, decl |-> d]
Frame(cb) == [cb |-> cb, stage |-> "enter"]
Top == stack[Len(stack)]
Pop == SubSeq(stack, 1, Len(stack) - 1)
SetStage(st) == [stack EXCEPT ![Len(stack)].stage = st]

\* whether pg_init of d panics on its name ("CString::new failed")
PgInitPanics(d) == d \in Locked /\ ~CString_new(get_name(d)).ok

\* the pre-pg15 macro as it would be without its $thing.pg_init() line
pg_shmem_init_pre15_norequest(s) ==
    /\ PREV_SHMEM_STARTUP_HOOK' =
           [PREV_SHMEM_STARTUP_HOOK EXCEPT ![s] = shmem_startup_hook]
    /\ shmem_startup_hook' = s
    /\ regOrder' = Append(regOrder, s)
    /\ UNCHANGED <<PREV_SHMEM_REQUEST_HOOK, shmem_request_hook, ledger,
                   reqCount, pc>>

\* pg_shmem_init!($thing), variant for hosts before pg15, at site s
pg_shmem_init_pre15(s) ==
    /\ pg_init(Postmaster, s)
    /\ IF PgInitPanics(s)
       THEN UNCHANGED <<PREV_SHMEM_STARTUP_HOOK, shmem_startup_hook, regOrder>>
       ELSE /\ PREV_SHMEM_STARTUP_HOOK' =
                   [PREV_SHMEM_STARTUP_HOOK EXCEPT ![s] = shmem_startup_hook]
            /\ shmem_startup_hook' = s
            /\ regOrder' = Append(regOrder, s)
    /\ UNCHANGED <<PREV_SHMEM_REQUEST_HOOK, shmem_request_hook>>

\* the pg15 macro as it would be if it did not save the installed callbacks
pg_shmem_init_pg15_noprev(s) ==
    /\ shmem_request_hook' = s
    /\ shmem_startup_hook' = s
    /\ regOrder' = Append(regOrder, s)
    /\ UNCHANGED <<PREV_SHMEM_REQUEST_HOOK, PREV_SHMEM_STARTUP_HOOK, ledger,
                   reqCount, pc>>

\* the pg15 macro as it would be if it also ran $thing.pg_init() at once
pg_shmem_init_pg15_eager(s) ==
    /\ pg_init(Postmaster, s)
    /\ IF PgInitPanics(s)
       THEN UNCHANGED <<hooks, regOrder>>
       ELSE /\ PREV_SHMEM_REQUEST_HOOK' =
                   [PREV_SHMEM_REQUEST_HOOK EXCEPT ![s] = shmem_request_hook]
            /\ shmem_request_hook' = s
            /\ PREV_SHMEM_STARTUP_HOOK' =
                   [PREV_SHMEM_STARTUP_HOOK EXCEPT ![s] = shmem_startup_hook]
            /\ shmem_startup_hook' = s
            /\ regOrder' = Append(regOrder, s)

\* pg_shmem_init!($thing), variant for pg15 and pg16, at site s
pg_shmem_init_pg15(s) ==
    /\ PREV_SHMEM_REQUEST_HOOK' =
           [PREV_SHMEM_REQUEST_HOOK EXCEPT ![s] = shmem_request_hook]
    /\ shmem_request_hook' = s
    /\ PREV_SHMEM_STARTUP_HOOK' =
           [PREV_SHMEM_STARTUP_HOOK EXCEPT ![s] = shmem_startup_hook]
    /\ shmem_startup_hook' = s
    /\ regOrder' = Append(regOrder, s)
    /\ UNCHANGED <<ledger, reqCount, pc>>

\* _PG_init executes the pg_shmem_init! of site s
pg_shmem_init(s) ==
    /\ hostPhase = "load"
    /\ pc[Postmaster] = "idle"
    /\ s \in Range(regOrder) =>
           Len(regOrder) - Cardinality(Range(regOrder)) < MaxRepeat
    /\ IF pg15 THEN pg_shmem_init_pg15(s) ELSE pg_shmem_init_pre15(s)
    /\ lastRead' = NoRead
    /\ UNCHANGED <<ShmemIndex, initLock, uuidCtr, handle, locals, attCount,
                   resolved, pg15, hostPhase, stack, trace, prior>>

\* the host (pg15 and later) calls shmem_request_hook, when one is installed
process_shmem_requests ==
    /\ pg15
    /\ hostPhase = "load"
    /\ pc[Postmaster] = "idle"
    /\ hostPhase' = "request"
    /\ stack' = IF shmem_request_hook = None THEN <<>>
                ELSE <<Frame(shmem_request_hook)>>
    /\ lastRead' = NoRead
    /\ UNCHANGED <<ledger, ShmemIndex, initLock, uuidCtr, handle, pc, locals,
                   reqCount, attCount, resolved, pg15, hooks, trace, regOrder,
                   prior>>

\* the host calls shmem_startup_hook, when one is installed, once the
\* requests are in and the segment is sized
CreateSharedMemoryAndSemaphores ==
    /\ hostPhase = IF pg15 THEN "request" ELSE "load"
    /\ stack = <<>>
    /\ pc[Postmaster] = "idle"
    /\ hostPhase' = "startup"
    /\ stack' = IF shmem_startup_hook = None THEN <<>>
                ELSE <<Frame(shmem_startup_hook)>>
    /\ lastRead' = NoRead
    /\ UNCHANGED <<ledger, ShmemIndex, initLock, uuidCtr, handle, pc, locals,
                   reqCount, attCount, resolved, pg15, hooks, trace, regOrder,
                   prior>>

\* the callback of another extension runs
ext_callback ==
    /\ stack # <<>>
    /\ pc[Postmaster] = "idle"
    /\ Top.cb = Ext
    /\ trace' = [trace EXCEPT ![hostPhase] = Append(@, Event("ext", NoDecl))]
    /\ stack' = Pop
    /\ lastRead' = NoRead
    /\ UNCHANGED <<ledger, ShmemIndex, initLock, uuidCtr, handle, pc, locals,
                   reqCount, attCount, resolved, pg15, hooks, hostPhase,
                   regOrder, prior>>

\* the head of a site's callback: if let Some(i) = PREV { i() }
call_prev(prev) ==
    IF prev = None
    THEN /\ stack' = SetStage("thing")
         /\ UNCHANGED pc
    ELSE IF Len(stack) >= MaxDepth
    THEN /\ pc' = [pc EXCEPT ![Postmaster] = "overflow"]
         /\ UNCHANGED stack
    ELSE /\ stack' = Append(SetStage("thing"), Frame(prev))
         /\ UNCHANGED pc

\* __pgrx_private_shmem_request_hook of a site, up to the call of the
\* saved callback
private_shmem_request_hook_prev ==
    /\ hostPhase = "request"
    /\ stack # <<>>
    /\ pc[Postmaster] = "idle"
    /\ Top.cb \in Sites
    /\ Top.stage = "enter"
    /\ call_prev(PREV_SHMEM_REQUEST_HOOK[Top.cb])
    /\ lastRead' = NoRead
    /\ UNCHANGED <<ledger, ShmemIndex, initLock, uuidCtr, handle, locals,
                   reqCount, attCount, resolved, pg15, hooks, hostPhase,
                   trace, regOrder, prior>>

\* __pgrx_private_shmem_request_hook of a site: $thing.pg_init() and return
private_shmem_request_hook_thing ==
    /\ hostPhase = "request"
    /\ stack # <<>>
    /\ pc[Postmaster] = "idle"
    /\ Top.cb \in Sites
    /\ Top.stage = "thing"
    /\ pg_init(Postmaster, Top.cb)
    /\ IF PgInitPanics(Top.cb)
       THEN UNCHANGED <<stack, trace>>
       ELSE /\ stack' = Pop
            /\ trace' = [trace EXCEPT
                            !["request"] = Append(@, Event("pg_init", Top.cb))]
    /\ lastRead' = NoRead
    /\ UNCHANGED <<ShmemIndex, initLock, uuidCtr, handle, locals, attCount,
                   resolved, pg15, hooks, hostPhase, regOrder, prior>>

\* __pgrx_private_shmem_hook of a site, up to the call of the saved callback
private_shmem_hook_prev ==
    /\ hostPhase = "startup"
    /\ stack # <<>>
    /\ pc[Postmaster] = "idle"
    /\ Top.cb \in Sites
    /\ Top.stage = "enter"
    /\ call_prev(PREV_SHMEM_STARTUP_HOOK[Top.cb])
    /\ lastRead' = NoRead
    /\ UNCHANGED <<ledger, ShmemIndex, initLock, uuidCtr, handle, locals,
                   reqCount, attCount, resolved, pg15, hooks, hostPhase,
                   trace, regOrder, prior>>

\* __pgrx_private_shmem_hook of a site: the call of $thing.shmem_init()
private_shmem_hook_thing ==
    /\ hostPhase = "startup"
    /\ stack # <<>>
    /\ pc[Postmaster] = "idle"
    /\ Top.cb \in Sites
    /\ Top.stage = "thing"
    /\ shmem_init(Postmaster, Top.cb)
    /\ stack' = SetStage("ret")
    /\ trace' = [trace EXCEPT
                    !["startup"] = Append(@, Event("shmem_init", Top.cb))]
    /\ lastRead' = NoRead
    /\ UNCHANGED <<ledger, reqCount, pg15, hooks, hostPhase, regOrder, prior>>

\* __pgrx_private_shmem_hook of a site returns once shmem_init has returned
private_shmem_hook_ret ==
    /\ hostPhase = "startup"
    /\ stack # <<>>
    /\ pc[Postmaster] = "idle"
    /\ Top.cb \in Sites
    /\ Top.stage = "ret"
    /\ stack' = Pop
    /\ lastRead' = NoRead
    /\ UNCHANGED <<ledger, ShmemIndex, initLock, uuidCtr, handle, pc, locals,
                   reqCount, attCount, resolved, pg15, hooks, hostPhase,
                   trace, regOrder, prior>>

(* ------------------------------ harness -------------------------------- *)
\* a process calls the request phase of a declaration
CallPgInit(p, d) ==
    /\ pc[p] = "idle"
    /\ Len(lockTranches) + reqCount["AT"] < MaxRequests
    /\ pg_init(p, d)
    /\ lastRead' = NoRead
    /\ UNCHANGED hostVars
    /\ UNCHANGED <<ShmemIndex, initLock, uuidCtr, handle, locals,
                   attCount, resolved>>

\* the number of attach calls the processes of P started for declarations of D
RECURSIVE SumOver(_, _)
SumOver(f, S) ==
    IF S = {} THEN 0
    ELSE LET x == CHOOSE y \in S : TRUE IN f[x] + SumOver(f, S \ {x})
Attaches(P, D) ==
    SumOver([pd \in P \X D |-> attCount[pd[1]][pd[2]]], P \X D)

\* a process calls the attach phase of a declaration
CallShmemInit(p, d) ==
    /\ pc[p] = "idle"
    /\ Attaches(Procs, Decls) < MaxAttach
    /\ shmem_init(p, d)
    /\ lastRead' = NoRead
    /\ UNCHANGED hostVars
    /\ UNCHANGED <<ledger, reqCount>>

\* the state of a build (variant v) whose host has the callbacks rq and st
\* installed when the module is loaded
Start(v, rq, st) ==
    /\ reservedBytes = 0
    /\ lockTranches = <<>>
    /\ ShmemIndex = <<>>
    /\ initLock = NoProc
    /\ uuidCtr = 0
    /\ handle = [p \in Procs |-> [d \in Decls |-> Null]]
    /\ pc = [p \in Procs |-> "idle"]
    /\ cur = [p \in Procs |-> NoDecl]
    /\ shm_name = [p \in Procs |-> <<>>]
    /\ found = [p \in Procs |-> FALSE]
    /\ fv_shmem = [p \in Procs |-> Null]
    /\ lastRead = NoRead
    /\ reqCount = [d \in Decls |-> 0]
    /\ attCount = [p \in Procs |-> [d \in Decls |-> 0]]
    /\ resolved = [d \in Decls |-> {}]
    /\ pg15 = v
    /\ shmem_request_hook = rq
    /\ shmem_startup_hook = st
    /\ PREV_SHMEM_REQUEST_HOOK = [s \in Sites |-> None]
    /\ PREV_SHMEM_STARTUP_HOOK = [s \in Sites |-> None]
    /\ hostPhase = "load"
    /\ stack = <<>>
    /\ trace = [k \in {"request", "startup"} |-> <<>>]
    /\ regOrder = <<>>
    /\ prior = [request |-> rq, startup |-> st]

\* the registrar driven directly by a harness: two processes call the
\* request phase, the attach phase and the accessors in any order, for the
\* declarations whose names are well formed
Driven == {"L1", "L2", "AT"}

Init == Start(FALSE, None, None)

Next ==
    \/ \E p \in Procs, d \in Driven : CallPgInit(p, d)
    \/ \E p \in Procs, d \in Driven : CallShmemInit(p, d)
    \/ \E p \in Procs : LWLockAcquire(p)
    \/ \E p \in Procs : ShmemInitStruct(p)
    \/ \E p \in Procs : ptr_write(p)
    \/ \E p \in Procs : attach(p)
    \/ \E p \in Procs : ptr_copy(p)
    \/ \E p \in Procs : LWLockRelease(p)
    \/ \E p \in Procs, d \in Driven : share(p, d)
    \/ \E p \in Procs, d \in Driven : \E v \in ValuesOf(d) : exclusive(p, d, v)
    \/ \E p \in Procs, d \in Driven : atomic_load(p, d)
    \/ \E p \in Procs, d \in Driven : \E v \in ValuesOf(d) : atomic_store(p, d, v)

Spec == Init /\ [][Next]_vars

\* the harness over the lock-protected declarations, the one whose name
\* cannot be made a C string included
DrivenNames == {"L1", "LB"}

NextNames ==
    \/ \E p \in Procs, d \in DrivenNames : CallPgInit(p, d)
    \/ \E p \in Procs, d \in DrivenNames : CallShmemInit(p, d)
    \/ \E p \in Procs : LWLockAcquire(p)
    \/ \E p \in Procs : ShmemInitStruct(p)
    \/ \E p \in Procs : ptr_write(p)
    \/ \E p \in Procs : attach(p)
    \/ \E p \in Procs : LWLockRelease(p)

SpecNames == Init /\ [][NextNames]_vars

\* the attach phase alone, run by both processes on every declaration, with
\* the scheduling the host gives it: a process inside an attach call keeps
\* running, and the global lock is granted to a waiting process
NextAttach ==
    \/ \E p \in Procs, d \in Decls : CallShmemInit(p, d)
    \/ \E p \in Procs : LWLockAcquire(p)
    \/ \E p \in Procs : ShmemInitStruct(p)
    \/ \E p \in Procs : ptr_write(p)
    \/ \E p \in Procs : attach(p)
    \/ \E p \in Procs : ptr_copy(p)
    \/ \E p \in Procs : LWLockRelease(p)

SpecFair ==
    /\ Init
    /\ [][NextAttach]_vars
    /\ \A p \in Procs :
           /\ SF_vars(LWLockAcquire(p))
           /\ WF_vars(ShmemInitStruct(p))
           /\ WF_vars(ptr_write(p))
           /\ WF_vars(attach(p))
           /\ WF_vars(ptr_copy(p))
           /\ WF_vars(LWLockRelease(p))

\* the registrar driven by the host: the postmaster loads the module, which
\* executes pg_shmem_init! sites, then the host runs its hooks
InitHost ==
    \E v \in BOOLEAN, rq \in {None, Ext}, st \in {None, Ext} :
        /\ (~v => rq = None)
        /\ Start(v, rq, st)

NextHost ==
    \/ \E s \in Sites : pg_shmem_init(s)
    \/ process_shmem_requests
    \/ CreateSharedMemoryAndSemaphores
    \/ ext_callback
    \/ private_shmem_request_hook_prev
    \/ private_shmem_request_hook_thing
    \/ private_shmem_hook_prev
    \/ private_shmem_hook_thing
    \/ private_shmem_hook_ret
    \/ LWLockAcquire(Postmaster)
    \/ ShmemInitStruct(Postmaster)
    \/ ptr_write(Postmaster)
    \/ attach(Postmaster)
    \/ ptr_copy(Postmaster)
    \/ LWLockRelease(Postmaster)

SpecHost == InitHost /\ [][NextHost]_vars

(* ------------------------------ claims --------------------------------- *)
Slots == 1..Len(ShmemIndex)
\* the slots that carry the name of a lock-protected declaration
NamedSlots ==
    {i \in Slots : \E d \in Locked : ShmemIndex[i].name = get_name(d)}
\* the processes inside an attach call of declaration d
Attaching(d) == {p \in Procs : cur[p] = d}

\* C1: over any interleaving of shmem_init_locked calls on one named slot,
\* the default value is written into the slot by exactly one of them (the
\* call that created the slot); every other call only binds its handle.
C1_DefaultWrittenOnce ==
    \A i \in NamedSlots : ShmemIndex[i].inits <= 1

\* C2: once the request and attach phases of a lock-protected declaration
\* have run, a read through the handle returns the default value while no
\* write has happened, and afterwards the value most recently written by
\* any process, whatever reads, writes and attach calls interleave.
C2_ReadSeesLastWrite ==
    (lastRead.proc # NoProc /\ reqCount[lastRead.decl] >= 1) =>
        LET slot == ShmemIndex[handle[lastRead.proc][lastRead.decl]] IN
        lastRead.val = IF slot.written.set THEN slot.written.val
                       ELSE default(lastRead.decl)

\* C3: for every declaration, lock-protected or lock-free, after any number
\* of processes have each run its attach phase, exactly one slot has been
\* allocated for it and every attached handle is bound to that slot.
C3_OneSlotPerDeclaration ==
    \A d \in Decls :
        (Attaching(d) = {} /\ \A p \in Procs : attCount[p][d] <= 1) =>
            /\ Cardinality(resolved[d]) <= 1
            /\ \A p, q \in Procs :
                   (handle[p][d] # Null /\ handle[q][d] # Null) =>
                       handle[p][d] = handle[q][d]

\* C4: a second request phase for the same lock-protected name is rejected:
\* it adds no second byte reservation and no second named-lock reservation.
C4_NoDuplicateReservation ==
    /\ \A i, j \in 1..Len(lockTranches) :
           lockTranches[i].name = lockTranches[j].name => i = j

\* C5: an attach call for a declaration whose request phase has not run is
\* detected: it fails instead of looking up, initialising and binding a slot.
C5_AttachNeedsRequest ==
    \A d \in Decls :
        (resolved[d] # {} \/ \E p \in Procs : handle[p][d] # Null) =>
            reqCount[d] >= 1

\* the host has finished its call of the request hook / the startup hook
RequestDone ==
    /\ pg15
    /\ \/ hostPhase = "request" /\ stack = <<>> /\ pc[Postmaster] = "idle"
       \/ hostPhase = "startup"
StartupDone ==
    hostPhase = "startup" /\ stack = <<>> /\ pc[Postmaster] = "idle"

\* C6: under the host's startup sequence, in both variants of the macro, the
\* request phase of a registered declaration has completed before its attach
\* phase begins, and the request phases of all registered declarations have
\* completed before the attach phase of any declaration begins.
C6_RequestBeforeAttach ==
    \A d \in Decls :
        attCount[Postmaster][d] > 0 =>
            /\ reqCount[d] >= 1
            /\ \A s \in Range(regOrder) : reqCount[s] >= 1

C6_Witness ==
    /\ pg15
    /\ Len(regOrder) >= 2
    /\ \E d \in Locked : attCount[Postmaster][d] > 0
    /\ \A s \in Range(regOrder) : reqCount[s] = 1

\* what one invocation of a slot has to run: the callback found installed
\* at module load first, then the phase of each site in registration order
Expected(k, phase) ==
    (IF prior[k] = Ext THEN <<Event("ext", NoDecl)>> ELSE <<>>)
        \o [i \in 1..Len(regOrder) |-> Event(phase, regOrder[i])]

\* C7: one host invocation of a hook slot runs the pre-existing callback (if
\* any) exactly once and first, then the phase of each registered
\* declaration exactly once, in registration order.
C7_HookChainOrder ==
    /\ RequestDone => trace["request"] = Expected("request", "pg_init")
    /\ StartupDone => trace["startup"] = Expected("startup", "shmem_init")

C7_Witness ==
    /\ pg15
    /\ StartupDone
    /\ Len(regOrder) = 3
    /\ prior["request"] = Ext
    /\ prior["startup"] = Ext
    /\ Len(trace["request"]) = 4
    /\ Len(trace["startup"]) = 4

IsLocked(s) == s \in Locked
RECURSIVE SumSizes(_)
SumSizes(q) == IF q = <<>> THEN 0 ELSE size_of(Head(q)) + SumSizes(Tail(q))
\* the ledger holds the reservations of the sites of q, and nothing else
LedgerIs(q) ==
    /\ reservedBytes = SumSizes(q)
    /\ lockTranches = [i \in 1..Len(SelectSeq(q, IsLocked)) |->
                          [name |-> get_name(SelectSeq(q, IsLocked)[i]),
                           count |-> 1]]

C9_FreshSlotPerAtomicAttach ==
    /\ \A p \in Procs :
           (cur[p] \in Atomics /\ pc[p] \in {"attach", "copy", "release"}) =>
               ~found[p]
    /\ \A p, q \in Procs :
           (p # q /\ cur[p] \in Atomics /\ cur[q] \in Atomics) =>
               shm_name[p] # shm_name[q]
    /\ \A d \in Atomics :
           Cardinality(resolved[d]) =
               Attaches(Procs, {d})
                   - Cardinality({p \in Attaching(d) :
                                     pc[p] \in {"acquire", "lookup"}})

C9_Witness ==
    /\ handle["A"]["AT"] # Null
    /\ handle["B"]["AT"] # Null
    /\ handle["A"]["AT"] # handle["B"]["AT"]
    /\ Attaching("AT") = {}

\* C10: a lock-protected integer cell with default 0, request phase run,
\* attach phase completed in A and B: both read 0; once A has written 5
\* under the lock, a read by B returns 5 as long as no further attach or
\* write has touched the cell.
C10_WriteVisibleAcrossProcesses ==
    (/\ lastRead.decl = "L1"
     /\ reqCount["L1"] >= 1
     /\ \A p \in Procs : handle[p]["L1"] # Null) =>
        /\ ShmemIndex[handle[lastRead.proc]["L1"]].lastOp.kind = "attach"
               => lastRead.val = 0
        /\ (/\ lastRead.proc = "B"
            /\ ShmemIndex[handle["A"]["L1"]].lastOp =
                   [kind |-> "write", by |-> "A", val |-> 5])
               => lastRead.val = 5

C10_Witness ==
    /\ lastRead = [proc |-> "B", decl |-> "L1", val |-> 5]
    /\ reqCount["L1"] = 1
    /\ handle["A"]["L1"] # Null
    /\ ShmemIndex[handle["A"]["L1"]].lastOp =
           [kind |-> "write", by |-> "A", val |-> 5]

\* C11: a lock-free boolean: when shmem_init_atomic returns, the handle is
\* bound and the slot holds false; once the value has been stored through
\* the atomic's own operation, a read through a handle bound to the slot
\* returns what was stored; neither the store nor the read takes the global
\* initialisation lock.
C11_AtomicSlotOf(p) == ShmemIndex[handle[p]["AT"]]
C11_AtomicStep(p) ==
    \/ lastRead' = [proc |-> p, decl |-> "AT", val |-> lastRead'.val]
    \/ /\ handle[p]["AT"] # Null
       /\ pc[p] = "idle"
       /\ pc'[p] = "idle"
       /\ ShmemIndex' # ShmemIndex
       /\ ShmemIndex'[handle[p]["AT"]].lastOp.by = p
       /\ ShmemIndex'[handle[p]["AT"]] # ShmemIndex[handle[p]["AT"]]
C11_AtomicDefaultFlipNoLock ==
    /\ [](\A p \in Procs :
             (attCount[p]["AT"] > 0 /\ pc[p] = "idle") =>
                 /\ handle[p]["AT"] # Null
                 /\ C11_AtomicSlotOf(p).lastOp.kind = "attach"
                        => C11_AtomicSlotOf(p).val = 0)
    /\ [](lastRead.decl = "AT" =>
             LET slot == C11_AtomicSlotOf(lastRead.proc) IN
             lastRead.val = IF slot.written.set THEN slot.written.val ELSE 0)
    /\ [][\A p \in Procs : C11_AtomicStep(p) => initLock' = initLock]_vars

C11_Witness ==
    /\ lastRead = [proc |-> "A", decl |-> "AT", val |-> 1]
    /\ initLock = "B"
    /\ C11_AtomicSlotOf("A").written = [set |-> TRUE, val |-> 1]

\* C12: when the declaration's name cannot be made a C string the call is
\* fatal and touches nothing shared: pg_init_locked fails before any byte
\* or named-lock reservation, shmem_init_locked fails before the global lock
\* is taken and before any slot is looked up, written or bound.
C12_BadName == get_name("LB")
C12_NameFailureTouchesNothing ==
    /\ [](/\ reqCount["LB"] = 0
          /\ resolved["LB"] = {}
          /\ \A i \in 1..Len(lockTranches) : lockTranches[i].name # C12_BadName
          /\ \A i \in Slots : ShmemIndex[i].name # C12_BadName
          /\ \A p \in Procs :
                 /\ handle[p]["LB"] = Null
                 /\ attCount[p]["LB"] > 0 => pc[p] = "panicked"
                 /\ pc[p] = "panicked" => (initLock # p /\ cur[p] = NoDecl))
    /\ [][\A p \in Procs :
             (pc[p] # "panicked" /\ pc'[p] = "panicked") =>
                 UNCHANGED <<ledger, ShmemIndex, initLock, handle>>]_vars

C12_Witness ==
    /\ pc["A"] = "panicked"
    /\ attCount["A"]["LB"] = 1
    /\ pc["B"] = "panicked"
    /\ attCount["B"]["LB"] = 0
    /\ handle["B"]["L1"] # Null
    /\ reservedBytes > 0

\* the positions of an attach call between its slot lookup and its release
InCritical == {"lookup", "write", "attach", "copy", "release"}

\* C13: in both attach variants every slot lookup or creation, every write
\* of the default value and every bind of a handle is made by the process
\* that holds the global initialisation lock; at most one process is
\* between its slot lookup and its release, and a process that has returned
\* from an attach call does not hold the lock.
C13_AttachUnderInitLock ==
    /\ [](\A p \in Procs : pc[p] \in InCritical <=> initLock = p)
    /\ [](Cardinality({p \in Procs : pc[p] \in InCritical}) <= 1)
    /\ [][(\/ handle' # handle
           \/ resolved' # resolved
           \/ Len(ShmemIndex') # Len(ShmemIndex)
           \/ \E i \in Slots : ShmemIndex'[i].inits # ShmemIndex[i].inits)
          => /\ initLock # NoProc
             /\ initLock' = initLock
             /\ pc[initLock] \in InCritical
             /\ pc'[initLock] # pc[initLock]
             /\ \A q \in Procs \ {initLock} : pc'[q] = pc[q]]_vars

C13_Witness ==
    /\ pc["A"] = "write"
    /\ cur["A"] \in Locked
    /\ pc["B"] = "acquire"
    /\ cur["B"] \in Atomics
    /\ initLock = "A"

\* C14 as stated: when a shmem_init_locked call returns, the named slot
\* holds the default value and the caller's handle is bound to the slot.
C14_DefaultOnReturn ==
    \A p \in Procs :
        (pc[p] = "release" /\ cur[p] \in Locked) =>
            /\ ShmemIndex[fv_shmem[p]].val = default(cur[p])
            /\ handle[p][cur[p]] = fv_shmem[p]

\* C14 as amended: every shmem_init_locked call, found or not, takes the
\* global lock, looks the slot up or creates it, writes the default into
\* it, binds the handle to it and releases the lock, in this order; when it
\* returns the handle is bound to the named slot, and the slot holds the
\* default unless another process has written through its handle since.
C14_LockedStep(p, from, to) ==
    cur[p] \in Locked /\ pc[p] = from /\ pc'[p] # from => pc'[p] = to
C14_LockedAttachOrder ==
    /\ [](\A p \in Procs :
             (pc[p] = "release" /\ cur[p] \in Locked) =>
                 LET slot == ShmemIndex[fv_shmem[p]] IN
                 /\ handle[p][cur[p]] = fv_shmem[p]
                 /\ slot.name = get_name(cur[p])
                 /\ slot.inits >= 1
                 /\ slot.lastOp.kind = "attach" => slot.val = default(cur[p])
                 /\ slot.lastOp.kind = "write" => slot.lastOp.by # p)
    /\ [][\A p \in Procs :
             /\ C14_LockedStep(p, "acquire", "lookup")
             /\ C14_LockedStep(p, "lookup", "write")
             /\ C14_LockedStep(p, "write", "attach")
             /\ C14_LockedStep(p, "attach", "release")
             /\ C14_LockedStep(p, "release", "idle")
             /\ (cur[p] \in Locked /\ pc[p] = "write" /\ pc'[p] = "attach") =>
                    /\ ShmemIndex'[fv_shmem[p]].val = default(cur[p])
                    /\ ShmemIndex'[fv_shmem[p]].inits =
                           ShmemIndex[fv_shmem[p]].inits + 1]_vars

C14_Witness ==
    /\ pc["B"] = "release"
    /\ cur["B"] = "L1"
    /\ found["B"]
    /\ ShmemIndex[fv_shmem["B"]].inits = 2
    /\ ShmemIndex[fv_shmem["B"]].val = 0
    /\ handle["A"]["L1"] = handle["B"]["L1"]

\* C15: the request phase changes the host's ledger only: pg_init_locked
\* adds the value's size to the reserved bytes and one tranche request of
\* capacity 1 under the declaration's name, pg_init_atomic adds the value's
\* size and no lock; neither creates a slot, binds a handle, takes the
\* global lock or changes a hook slot.
C15_RequestFrame ==
    /\ [][\A d \in Decls :
             reqCount'[d] # reqCount[d] =>
                 /\ reqCount'[d] = reqCount[d] + 1
                 /\ reservedBytes' = reservedBytes + size_of(d)
                 /\ d \in Locked =>
                        lockTranches' =
                            Append(lockTranches,
                                   [name |-> get_name(d), count |-> 1])
                 /\ d \in Atomics => lockTranches' = lockTranches
                 /\ UNCHANGED <<ShmemIndex, handle, initLock, hooks, pc,
                                locals, uuidCtr>>]_vars
    /\ [][ledger' # ledger => \E d \in Decls : reqCount'[d] # reqCount[d]]_vars

C15_Witness ==
    /\ reqCount["L1"] = 1
    /\ reqCount["AT"] = 1
    /\ reservedBytes = size_of("L1") + size_of("AT")
    /\ lockTranches = <<[name |-> get_name("L1"), count |-> 1]>>
    /\ ShmemIndex = <<>>

\* the callback that was installed in the startup slot before site s first
\* registered
C16_InstalledBefore(s) ==
    LET i == CHOOSE k \in 1..Len(regOrder) :
                 regOrder[k] = s /\ \A j \in 1..(k - 1) : regOrder[j] # s
    IN IF i = 1 THEN prior["startup"] ELSE regOrder[i - 1]

\* C16: after any sequence of pg_shmem_init! executions, a site executed
\* more than once included, the saved previous-callback variable of each
\* site still holds the callback installed before the site first
\* registered, and a host invocation of the slot terminates having run
\* every installed callback at most once.
C16_SavedCallbackKept ==
    /\ \A s \in Range(regOrder) :
           PREV_SHMEM_STARTUP_HOOK[s] = C16_InstalledBefore(s)
    /\ pc[Postmaster] # "overflow"
    /\ \A i, j \in 1..Len(stack) : stack[i].cb = stack[j].cb => i = j

RECURSIVE SumSlots(_)
SumSlots(q) == IF q = <<>> THEN 0 ELSE Head(q).size + SumSlots(Tail(q))

\* C17: when the request phase of each declaration ran exactly once and
\* its attach phase runs once in each attaching process, the total size of
\* the slots created by the attach phases does not exceed the bytes
\* reserved by the request phases.
C17_SlotsWithinReservation ==
    (/\ \A d \in Decls : reqCount[d] <= 1
     /\ \A d \in Decls, p \in Procs :
            /\ attCount[p][d] <= 1
            /\ attCount[p][d] = 1 => reqCount[d] = 1)
        => SumSlots(ShmemIndex) <= reservedBytes

\* C18 (as stated): with the global lock granted fairly and the slot lookup
\* returning, every process that starts an attach call eventually returns
\* from it with its handle bound.
C18_EveryAttachReturns ==
    \A p \in Procs, d \in Decls :
        (attCount[p][d] > 0) ~> (pc[p] = "idle" /\ handle[p][d] # Null)

\* C18 (amended): under the same assumptions every attach call that gets past
\* its name construction returns with its handle bound; a call whose name
\* cannot be built aborts the process before the lock is requested; the
\* global lock is free again after every acquisition, so no interleaving of
\* attach calls deadlocks.
C18_AttachTerminates ==
    /\ \A p \in Procs, d \in Decls :
           (attCount[p][d] > 0)
               ~> \/ pc[p] = "idle" /\ handle[p][d] # Null
                  \/ pc[p] = "panicked"
    /\ [](\A p \in Procs :
              pc[p] = "panicked" =>
                  /\ initLock # p
                  /\ \E d \in Locked : /\ attCount[p][d] > 0
                                       /\ ~CString_new(get_name(d)).ok)
    /\ \A p \in Procs : (pc[p] = "acquire") ~> (initLock = p)
    /\ (initLock # NoProc) ~> (initLock = NoProc)

C18_Witness ==
    /\ pc["A"] = "acquire"
    /\ cur["A"] = "L1"
    /\ initLock = "B"
    /\ pc["B"] = "copy"

====
